---- MODULE Spec2Model ----
(***************************************************************************)
(* A model of cihai's Unihan data-access layer:                             *)
(*   cihai/datasets/unihan.py  Unihan.install, _create_table, get, reverse  *)
(*   cihai/bootstrap.py        is_bootstrapped, create_table, get           *)
(* over one SQLAlchemy MetaData / one relational store.                     *)
(*                                                                         *)
(* Text is a sequence of code points (Python unicode strings): "U" is 85,   *)
(* "+" is 43, "%" is 37, "_" is 95, "0".."9" are 48..57, "A".."F" 65..70.    *)
(* A Python dict is a set of <<key, value>> pairs with distinct keys.       *)
(***************************************************************************)
EXTENDS Integers, Sequences, FiniteSets, TLC

VARIABLES
    tables,     \* metadata.tables['Unihan']: NoTable or [columns, indexes]
    rows,       \* committed rows of the Unihan table: [id, char, field, value]
    pc,         \* install: "idle" (never run), "create" and "insert" (under
                \* way), "done" (returned), "failed" (raised IntegrityError)
    data,       \* install: the parsed records of the latest run (a list)
    prev,       \* the records of the run before it, when that one returned
    idx,        \* install: index in data of the next record of the executemany
    pending,    \* install: rows inserted by the open transaction, uncommitted
    base,       \* rows as they were when the running install began
    installs,   \* number of install runs begun
    response,   \* the response dict handed to / returned by get and reverse
    last        \* the last completed call: its arguments, result and error

vars == <<tables, rows, pc, data, prev, idx, pending, base, installs, response, last>>

\* How many install runs one behaviour holds.
MaxInstalls == 2

----------------------------------------------------------------------------
(* Helpers on sequences and dicts *)

Range(s) == {s[i] : i \in 1..Len(s)}

\* d[k] = v
Put(d, k, v) == {p \in d : p[1] # k} \cup {<<k, v>>}

\* k in d
HasKey(d, k) == \E p \in d : p[1] = k

\* d[k], for a key d holds
Lookup(d, k) == (CHOOSE p \in d : p[1] = k)[2]

\* Some enumeration of a finite set as a list (an iteration order).
RECURSIVE SetToSeq(_)
SetToSeq(S) ==
    IF S = {} THEN <<>>
    ELSE LET x == CHOOSE y \in S : TRUE IN <<x>> \o SetToSeq(S \ {x})

----------------------------------------------------------------------------
(* Conversion utilities (cihai.conversion) *)

HexDigit(n) == IF n < 10 THEN 48 + n ELSE 55 + n

RECURSIVE HexDigits(_)
HexDigits(n) ==
    IF n < 16 THEN <<HexDigit(n)>>
    ELSE Append(HexDigits(n \div 16), HexDigit(n % 16))

RECURSIVE ZeroPad(_)
ZeroPad(s) == IF Len(s) >= 4 THEN s ELSE ZeroPad(<<48>> \o s)

\* request.startswith('U+')
StartsWithUPlus(s) == Len(s) >= 2 /\ s[1] = 85 /\ s[2] = 43

\* "U+" followed by the upper-case hex code point, zero padded to 4 digits
python_to_ucn(s) == <<85, 43>> \o ZeroPad(HexDigits(s[1]))

HexValue(c) == IF c <= 57 THEN c - 48 ELSE c - 55

RECURSIVE HexNumber(_)
HexNumber(s) ==
    IF s = <<>> THEN 0
    ELSE 16 * HexNumber(SubSeq(s, 1, Len(s) - 1)) + HexValue(s[Len(s)])

\* the character a "U+XXXX" tag names
ucn_to_unicode(t) == <<HexNumber(SubSeq(t, 3, Len(t)))>>

\* SQL LIKE: % matches any run of characters, _ exactly one
RECURSIVE Like(_, _)
Like(s, p) ==
    IF p = <<>> THEN s = <<>>
    ELSE IF Head(p) = 37
         THEN Like(s, Tail(p)) \/ (s # <<>> /\ Like(Tail(s), p))
    ELSE IF Head(p) = 95
         THEN s # <<>> /\ Like(Tail(s), Tail(p))
    ELSE s # <<>> /\ Head(s) = Head(p) /\ Like(Tail(s), Tail(p))

----------------------------------------------------------------------------
(* The field catalog *)

\* { 'FILENAME': ['fields'] }, cut down to two files and three fields
UNIHAN_DATASETS ==
    { <<"Unihan_Readings.txt", <<"kDefinition", "kMandarin">> >>,
      <<"Unihan_Variants.txt", <<"kZVariant">> >> }

UNIHAN_MANIFEST == UNIHAN_DATASETS

TABLE_NAME == "Unihan"

DEFAULT_COLUMNS == <<"ucn", "char">>

\* sorted({c for cs in d.values() for c in cs}), as a list
flatten_datasets(d) == SetToSeq(UNION {Range(p[2]) : p \in d})

\* [f for t, f in UNIHAN_DATASETS.items() if t in ['Unihan']]:
\* no file of the catalog is named 'Unihan', so the list is empty
default_fields == {p[2] : p \in {q \in UNIHAN_DATASETS : q[1] = TABLE_NAME}}

CatalogFields == UNION {Range(p[2]) : p \in UNIHAN_DATASETS}

----------------------------------------------------------------------------
(* The schema: bootstrap.create_table and Unihan._create_table *)

\* metadata.tables without a 'Unihan' entry
NoTable == [exists |-> FALSE, columns |-> {}, primary_key |-> {}, indexes |-> {}]

\* Table('Unihan', metadata): the table of that name, registered (without
\* columns) when the metadata has none yet
Table(t) == [t EXCEPT !.exists = TRUE]

\* bootstrap.create_table(columns, metadata): the wide table, one column per
\* field, built only when the metadata has no table of that name
create_table(columns, t) ==
    IF ~t.exists
    THEN [exists      |-> TRUE,
          columns     |-> {"char", "ucn"} \cup Range(columns),
          primary_key |-> {"char", "ucn"},
          indexes     |-> {"Unihan_unique_char", "Unihan_unique_char_ucn"}]
    ELSE Table(t)

\* _create_table with unique=True left out of its two unique indexes
_create_table_NoUnique(t) ==
    [exists      |-> TRUE,
     columns     |-> t.columns \cup {"id", "char", "field", "value"},
     primary_key |-> (t.primary_key \ {"char"}) \cup {"id"},
     indexes     |-> t.indexes \cup {"Unihan_field"}]

\* Unihan._create_table(table_name): the long table. Table() returns the
\* table the metadata already has; append_column adds id, char, field and
\* value to it (a column of the same name is replaced, so char stops being
\* part of the primary key) and the three indexes are attached to it.
\* metadata.create_all() then emits CREATE TABLE unless the store has it.
_create_table(t) ==
    [exists      |-> TRUE,
     columns     |-> t.columns \cup {"id", "char", "field", "value"},
     primary_key |-> (t.primary_key \ {"char"}) \cup {"id"},
     indexes     |-> t.indexes \cup {"Unihan_unique_char_field_value",
                                     "Unihan_unique_char_field",
                                     "Unihan_field"}]

\* is_bootstrapped accepting a table that has the expected columns and more
is_bootstrapped_Superset(t, install_dict) ==
    LET dict    == IF install_dict = {} THEN UNIHAN_MANIFEST ELSE install_dict
        columns == flatten_datasets(dict) \o DEFAULT_COLUMNS
    IN  IF t.exists
        THEN Range(columns) \subseteq t.columns
        ELSE FALSE

\* is_bootstrapped(metadata, install_dict)
is_bootstrapped(t, install_dict) ==
    LET dict    == IF install_dict = {} THEN UNIHAN_MANIFEST ELSE install_dict
        columns == flatten_datasets(dict) \o DEFAULT_COLUMNS
    IN  IF t.exists
        THEN Range(columns) = t.columns
        ELSE FALSE

----------------------------------------------------------------------------
(* The importer: Unihan.install *)

\* csv_to_dictlists: the lines of the files that are neither a comment nor
\* blank, each split on tabs and zipped with ['char', 'field', 'value']
csv_to_dictlists(lines) ==
    LET keep(l) == l.kind = "record"
        kept    == SelectSeq(lines, keep)
    IN  [i \in 1..Len(kept) |->
            [char |-> kept[i].char, field |-> kept[i].field, value |-> kept[i].value]]

\* The row the store holds for a record: id is the INTEGER PRIMARY KEY, which
\* the store fills with one more than the largest id it holds
NewRow(rec, held) ==
    LET ids == {r.id : r \in held}
        top == IF ids = {} THEN 0 ELSE CHOOSE m \in ids : \A n \in ids : n <= m
    IN  [id |-> top + 1, char |-> rec.char, field |-> rec.field, value |-> rec.value]

\* Whether the store rejects the INSERT of rec with an IntegrityError: a
\* unique index of the table already holds its key, or a primary key column
\* the INSERT gives no value for (ucn) is NOT NULL
Rejects(t, held, rec) ==
    \/ "Unihan_unique_char_field_value" \in t.indexes
         /\ \E r \in held : r.char = rec.char /\ r.field = rec.field /\ r.value = rec.value
    \/ "Unihan_unique_char_field" \in t.indexes
         /\ \E r \in held : r.char = rec.char /\ r.field = rec.field
    \/ "ucn" \in t.primary_key

\* What a statement of another connection reads: the committed rows
Visible == rows

\* insert_rows executing one INSERT per record, each committed on its own
insert_rows_Autocommit(row) ==
    /\ rows' = rows \cup {row}
    /\ pending' = pending

\* One row of the executemany went in: it stays in the open transaction
insert_rows(row) ==
    /\ pending' = pending \cup {row}
    /\ rows' = rows

----------------------------------------------------------------------------
(* The query service: Unihan.get, Unihan.reverse, bootstrap.get *)

\* A response dict: whether it has the 'unihan' key and, under it, the
\* entries field -> value (written by get) and char -> {field: value}
\* (written by reverse). The two kinds of key never coincide.
NoResponse == [present |-> FALSE, flat |-> {}, nested |-> {}]

\* the comparisons joined by or_ instead of and_
andstmt_Or(fields, r) == \E t \in fields : r.field = t

\* and_(*[(table.c.field == t) for t in fields]): every comparison must hold
\* (an and_() of nothing leaves the WHERE clause out)
andstmt(fields, r) == \A t \in fields : r.field = t

\* table.c.field == q, q = select([table.c.field]).where(andstmt): q is used
\* as a scalar subquery, whose value is the field of its first row, or NULL
\* (written "") when it has no row. Which row the store gives first is its
\* choice.
ScalarSubquery(fields) ==
    LET q == {r.field : r \in {x \in Visible : andstmt(fields, x)}}
    IN  IF q = {} THEN {""} ELSE q

\* for r in query: response['unihan'][r['field']] = r['value']
RECURSIVE PutFlat(_, _)
PutFlat(d, result) ==
    IF result = {} THEN d
    ELSE LET r == CHOOSE x \in result : TRUE
         IN  PutFlat(Put(d, r.field, r.value), result \ {r})

\* for r in query: char = ucn_to_unicode(r['char']);
\*     response['unihan'].setdefault(char, {})[r['field']] = r['value']
RECURSIVE PutNested(_, _)
PutNested(d, result) ==
    IF result = {} THEN d
    ELSE LET r    == CHOOSE x \in result : TRUE
             char == ucn_to_unicode(r.char)
             old  == IF HasKey(d, char) THEN Lookup(d, char) ELSE {}
         IN  PutNested(Put(d, char, Put(old, r.field, r.value)), result \ {r})

\* if not 'unihan' in response: response['unihan'] = {}
WithKey(resp) == IF resp.present THEN resp ELSE [resp EXCEPT !.present = TRUE]

\* the response returned without deleting an empty 'unihan'
DropEmpty_Never(resp) == resp

\* if not response['unihan']: del response['unihan']
DropEmpty(resp) ==
    IF resp.flat = {} /\ resp.nested = {} THEN NoResponse ELSE resp

\* The rows Unihan.get selects, given the scalar subquery's value f
GetRows(request, f) ==
    LET req == IF ~StartsWithUPlus(request) THEN python_to_ucn(request) ELSE request
    IN  {r \in Visible : r.field = f /\ r.value = req}

\* The rows Unihan.reverse selects, given the scalar subquery's value f
ReverseRows(request, f) ==
    {r \in Visible : r.field = f /\ Like(r.value, request)}

----------------------------------------------------------------------------
(* Inputs *)

Line(c, f, v) == [kind |-> "record", char |-> c, field |-> f, value |-> v]
Comment == [kind |-> "comment", char |-> <<>>, field |-> "", value |-> <<>>]
Blank   == [kind |-> "blank", char |-> <<>>, field |-> "", value |-> <<>>]

\* "U+597D" and "U+4F73", the tags of the characters 22909 and 20339
TagHao == <<85, 43, 53, 57, 55, 68>>
TagJia == <<85, 43, 52, 70, 55, 51>>
\* "good", "good f", "hao"
Good  == <<103, 111, 111, 100>>
GoodF == <<103, 111, 111, 100, 32, 102>>
HaoPy == <<104, 97, 111>>

\* The contents the source files can have (never without a record): plain
\* records, a record given twice, two values for one (char, field) pair
Sources ==
    { << Comment, Line(TagHao, "kDefinition", Good), Line(TagJia, "kDefinition", GoodF) >>,
      << Line(TagHao, "kMandarin", HaoPy), Blank, Line(TagJia, "kZVariant", TagHao) >>,
      << Line(TagHao, "kZVariant", TagJia), Line(TagHao, "kZVariant", TagJia) >>,
      << Line(TagJia, "kMandarin", Good), Line(TagHao, "kDefinition", GoodF) >> }

InstallDicts ==
    { {},
      { <<"Unihan_Readings.txt", <<"kDefinition">> >> },
      { <<"Unihan_Variants.txt", <<>> >> },
      UNIHAN_DATASETS }

\* the character U+597D itself, and its tag
Requests == { <<22909>>, TagHao }

\* "good%" and "_+%"
Patterns == { Good \o <<37>>, <<95, 43, 37>> }

FieldFilters ==
    { {"kDefinition"}, {"kZVariant"}, {"kDefinition", "kZVariant"},
      {"kNoSuchField"}, {"kNoSuchField", "kDefinition"} }

StartResponses ==
    { NoResponse,
      [present |-> TRUE, flat |-> {}, nested |-> {}],
      [present |-> TRUE, flat |-> {<<"kMandarin", HaoPy>>}, nested |-> {}],
      [present |-> TRUE, flat |-> {}, nested |-> {<< <<22909>>, {<<"kMandarin", HaoPy>>} >>}] }

----------------------------------------------------------------------------
(* The state machine *)

\* No install is under way
NotRunning == pc \in {"idle", "done", "failed"}

NoCall ==
    [op |-> "", request |-> <<>>, kw |-> FALSE, fields |-> {}, before |-> NoResponse,
     err |-> "", n |-> 0, ret |-> {}, dict |-> {}, ok |-> FALSE]

Init ==
    /\ tables = NoTable
    /\ rows = {}
    /\ pc = "idle"
    /\ data = <<>>
    /\ prev = <<>>
    /\ idx = 1
    /\ pending = {}
    /\ base = {}
    /\ installs = 0
    /\ response = NoResponse
    /\ last = NoCall

\* install(install_dict), lines 211-230: the files are read
InstallBegin(install_dict, lines) ==
    /\ NotRunning
    /\ installs < MaxInstalls
    /\ installs' = installs + 1
    /\ data' = csv_to_dictlists(lines)
    /\ prev' = IF pc = "done" THEN data ELSE <<>>
    /\ base' = rows
    /\ pc' = "create"
    /\ last' = [NoCall EXCEPT !.op = "install", !.dict = install_dict]
    /\ UNCHANGED <<tables, rows, idx, pending, response>>

\* install, line 232: table = self._create_table(table_name)
InstallCreateTable ==
    /\ pc = "create"
    /\ tables' = _create_table(tables)
    /\ pc' = "insert"
    /\ idx' = 1
    /\ pending' = {}
    /\ UNCHANGED <<rows, data, prev, base, installs, response, last>>

\* install, line 238: one record of execute(table.insert(), data). A rejected
\* INSERT raises IntegrityError out of install and the transaction is rolled
\* back.
InstallInsertRow ==
    /\ pc = "insert"
    /\ idx <= Len(data)
    /\ IF Rejects(tables, rows \cup pending, data[idx])
       THEN /\ pending' = {}
            /\ pc' = "failed"
            /\ UNCHANGED <<rows, idx>>
       ELSE /\ insert_rows(NewRow(data[idx], rows \cup pending))
            /\ idx' = idx + 1
            /\ UNCHANGED pc
    /\ UNCHANGED <<tables, data, prev, base, installs, response, last>>

\* install, lines 238-242: the executemany is over, its transaction commits
\* and install returns the table
InstallCommit ==
    /\ pc = "insert"
    /\ idx > Len(data)
    /\ rows' = rows \cup pending
    /\ pending' = {}
    /\ pc' = "done"
    /\ UNCHANGED <<tables, data, prev, idx, base, installs, response, last>>

\* bootstrap.create_table(columns, metadata)
CreateTable(columns) ==
    /\ tables' = create_table(columns, tables)
    /\ last' = [NoCall EXCEPT !.op = "create_table", !.ret = Range(columns)]
    /\ UNCHANGED <<rows, pc, data, prev, idx, pending, base, installs, response>>

\* bootstrap.is_bootstrapped(metadata, install_dict)
IsBootstrapped(install_dict) ==
    /\ last' = [NoCall EXCEPT !.op = "is_bootstrapped", !.dict = install_dict,
                              !.ok = is_bootstrapped(tables, install_dict)]
    /\ UNCHANGED <<tables, rows, pc, data, prev, idx, pending, base, installs, response>>

\* Unihan.get(request, response, fields=...)
Get(request, kw, fields_kw, resp0) ==
    LET fields == IF kw THEN fields_kw ELSE default_fields
        call   == [NoCall EXCEPT !.op = "get", !.request = request, !.kw = kw,
                                 !.fields = fields_kw, !.before = resp0]
    IN  /\ tables' = Table(tables)
        /\ IF "field" \notin tables.columns
           THEN /\ last' = [call EXCEPT !.err = "AttributeError"]
                /\ response' = resp0
           ELSE \E f \in ScalarSubquery(fields) :
                LET query == GetRows(request, f)
                    r1    == WithKey(resp0)
                    r2    == [r1 EXCEPT !.flat = PutFlat(r1.flat, query)]
                IN  /\ response' = DropEmpty(r2)
                    /\ last' = [call EXCEPT !.n = Cardinality(query)]
        /\ UNCHANGED <<rows, pc, data, prev, idx, pending, base, installs>>

\* Unihan.reverse(request, response, fields=...)
Reverse(request, kw, fields_kw, resp0) ==
    LET fields == IF kw THEN fields_kw ELSE default_fields
        call   == [NoCall EXCEPT !.op = "reverse", !.request = request, !.kw = kw,
                                 !.fields = fields_kw, !.before = resp0]
    IN  /\ tables' = Table(tables)
        /\ IF "field" \notin tables.columns
           THEN /\ last' = [call EXCEPT !.err = "AttributeError"]
                /\ response' = resp0
           ELSE \E f \in ScalarSubquery(fields) :
                LET query == ReverseRows(request, f)
                    r1    == WithKey(resp0)
                    r2    == [r1 EXCEPT !.nested = PutNested(r1.nested, query)]
                IN  /\ response' = DropEmpty(r2)
                    /\ last' = [call EXCEPT !.n = Cardinality(query)]
        /\ UNCHANGED <<rows, pc, data, prev, idx, pending, base, installs>>

\* bootstrap.get(char, metadata, fields=...)
BootstrapGet(char, kw, fields_kw) ==
    LET fields == IF kw THEN fields_kw ELSE default_fields
        call   == [NoCall EXCEPT !.op = "bootstrap.get", !.request = char, !.kw = kw,
                                 !.fields = fields_kw]
    IN  /\ tables' = Table(tables)
        /\ IF "field" \notin tables.columns
           THEN last' = [call EXCEPT !.err = "AttributeError"]
           ELSE \E f \in ScalarSubquery(fields) :
                last' = [call EXCEPT !.ret = PutFlat({}, GetRows(char, f))]
        /\ UNCHANGED <<rows, pc, data, prev, idx, pending, base, installs, response>>

\* The calls of one thread of control: a call begins when the one before it
\* has returned, so nothing runs while install is under way
Next ==
    \/ \E d \in InstallDicts, lines \in Sources : InstallBegin(d, lines)
    \/ InstallCreateTable
    \/ InstallInsertRow
    \/ InstallCommit
    \/ \E d \in InstallDicts : NotRunning /\ CreateTable(flatten_datasets(d))
    \/ \E d \in InstallDicts : NotRunning /\ IsBootstrapped(d)
    \/ \E q \in Requests, F \in FieldFilters, r0 \in StartResponses :
            NotRunning /\ Get(q, TRUE, F, r0)
    \/ \E q \in Requests, r0 \in StartResponses :
            NotRunning /\ Get(q, FALSE, {}, r0)
    \/ \E q \in Patterns, F \in FieldFilters, r0 \in StartResponses :
            NotRunning /\ Reverse(q, TRUE, F, r0)
    \/ \E q \in Patterns, r0 \in StartResponses :
            NotRunning /\ Reverse(q, FALSE, {}, r0)
    \/ \E q \in Requests, F \in FieldFilters :
            NotRunning /\ BootstrapGet(q, TRUE, F)
    \/ \E q \in Requests :
            NotRunning /\ BootstrapGet(q, FALSE, {})

Spec == Init /\ [][Next]_vars

\* An install and the statements of another connection, which come at any
\* point of it
NextConcurrent ==
    \/ \E lines \in Sources : InstallBegin({}, lines)
    \/ InstallCreateTable
    \/ InstallInsertRow
    \/ InstallCommit
    \/ \E q \in Requests : Get(q, TRUE, {"kZVariant"}, NoResponse)
    \/ \E q \in Patterns : Reverse(q, TRUE, {"kDefinition"}, NoResponse)

SpecConcurrent == Init /\ [][NextConcurrent]_vars

----------------------------------------------------------------------------
(* The claims *)

\* A set of rows without their ids
Contents(held) == {[char |-> r.char, field |-> r.field, value |-> r.value] : r \in held}

\* The code-point tag of a request given as a character or as a tag
Normalized(c) == IF StartsWithUPlus(c) THEN c ELSE python_to_ucn(c)

\* The field -> value entries of a set of rows
Entries(held) == {<<r.field, r.value>> : r \in held}

\* The call recorded in last was made on a store that has the long table
OnLongTable == "field" \in tables.columns

\* C1: forward lookup. A lookup of character c under filter F, starting from
\* an empty response, returns field -> value for exactly the stored rows
\* whose field is in F and whose char is the tag of c.
C1_ForwardLookup ==
    LET want == Entries({r \in rows : /\ r.field \in last.fields
                                      /\ r.char = Normalized(last.request)})
    IN  /\ (last.op = "get" /\ last.kw /\ last.before = NoResponse /\ OnLongTable)
            => response.flat = want
        /\ (last.op = "bootstrap.get" /\ last.kw /\ OnLongTable)
            => last.ret = want

\* C2: reverse lookup. A reverse lookup of pattern p under filter F, starting
\* from an empty response, returns one key per character that has a stored
\* row with field in F and value matching p, and under it exactly the
\* field -> value entries of those rows.
C2_ReverseLookup ==
    LET match == {r \in rows : r.field \in last.fields /\ Like(r.value, last.request)}
        want  == {<<ucn_to_unicode(c), Entries({r \in match : r.char = c})>> :
                     c \in {r.char : r \in match}}
    IN  (last.op = "reverse" /\ last.kw /\ last.before = NoResponse /\ OnLongTable)
            => response.nested = want

\* The response holds the 'unihan' key with nothing under it
EmptyContainer(resp) == resp.present /\ resp.flat = {} /\ resp.nested = {}

C4_IdempotentImport ==
    (pc \in {"done", "failed"} /\ prev # <<>> /\ data = prev)
        => pc = "done" /\ rows = base

C6_AtomicVisibility ==
    /\ pc \in {"create", "insert", "failed"} => Visible = base
    /\ pc = "done" => /\ Contents(Visible) = Contents(base) \cup Range(data)
                      /\ base \subseteq Visible

\* C6 witness: a reverse lookup ran while an install had inserted one of its
\* rows and not yet the other.
C6_Witness ==
    /\ pc = "insert" /\ pending # {} /\ idx <= Len(data)
    /\ last.op = "reverse" /\ last.err = ""
    /\ Visible = base

\* The call recorded in last had a field in its filter that the catalog lacks
UnknownField == last.kw /\ last.fields \ CatalogFields # {}

\* C7 as stated: a lookup or reverse lookup whose filter names a field absent
\* from the catalog fails with UnknownFieldError.
C7_UnknownField_Original ==
    (last.op \in {"get", "reverse", "bootstrap.get"} /\ UnknownField /\ OnLongTable)
        => last.err = "UnknownFieldError"

\* C7 as amended: a lookup or reverse lookup whose filter names a field absent
\* from the catalog is not rejected: on a store whose rows carry catalog
\* fields it completes without error and its result has zero rows.
C7_UnknownField ==
    /\ (last.op \in {"get", "reverse"} /\ UnknownField /\ OnLongTable)
          => last.err = "" /\ last.n = 0 /\ response = DropEmpty(WithKey(last.before))
    /\ (last.op = "bootstrap.get" /\ UnknownField /\ OnLongTable)
          => last.err = "" /\ last.ret = {}

\* C7 witness: a lookup filtered by kNoSuchField and kDefinition returned no
\* row from a table that holds kDefinition rows.
C7_Witness ==
    /\ last.op = "get" /\ last.fields = {"kNoSuchField", "kDefinition"}
    /\ \E r \in rows : r.field = "kDefinition"
    /\ last.err = "" /\ last.n = 0

\* The fields an install_dict names
FieldsOf(install_dict) == UNION {Range(p[2]) : p \in install_dict}

\* C8 as stated: is_bootstrapped is true iff the table exists and its column
\* names are exactly the expected fields with char and ucn.
C8_IsBootstrapped_Original ==
    last.op = "is_bootstrapped"
        => (last.ok <=> /\ tables.exists
                        /\ tables.columns = FieldsOf(last.dict) \cup {"char", "ucn"})

\* C8 as amended: is_bootstrapped is true iff the table exists and its column
\* names are exactly the expected fields with char and ucn, where an empty
\* install_dict stands for the whole manifest.
C8_IsBootstrapped ==
    LET expected == IF last.dict = {} THEN FieldsOf(UNIHAN_MANIFEST)
                                      ELSE FieldsOf(last.dict)
    IN  last.op = "is_bootstrapped"
            => (last.ok <=> /\ tables.exists
                            /\ tables.columns = expected \cup {"char", "ucn"})

\* C8 witness: is_bootstrapped answered true for a given install_dict.
C8_Witness ==
    /\ last.op = "is_bootstrapped" /\ last.ok
    /\ last.dict = { <<"Unihan_Readings.txt", <<"kDefinition">> >> }

\* C9: is_bootstrapped is false before any install and true right after
\* install has returned, for the install_dict install was given.
C9_BootstrapFollowsInstall ==
    /\ installs = 0 /\ tables = NoTable
          => \A d \in InstallDicts : ~is_bootstrapped(tables, d)
    /\ (pc = "done" /\ last.op = "install")
          => is_bootstrapped(tables, last.dict)

\* C10: a table that exists is left as it is, columns and indexes, by every
\* creation of the schema.
C10_SchemaIdempotent ==
    [][tables.columns # {} => tables' = tables]_vars

====
